---- MODULE Spec2Model ----
(***************************************************************************)
(* A model of generate-stats.js: one run of main() -- getRepositories,     *)
(* aggregateLanguages, generateSVG (generateDonutChart, generateLegend),   *)
(* fs.writeFileSync -- and of the pure functions on their own.             *)
(*                                                                         *)
(* JavaScript values are modelled as follows.  A language field is a       *)
(* string; the tokens NULL and UNDEFINED stand for the JS values null and  *)
(* undefined (an absent field).  An element of the fetched list is a       *)
(* record [tag, language]: tag "object" for a repository record, "null"    *)
(* for a JSON null, "primitive" for a number, boolean or string.  A JSON   *)
(* body is [kind, items].  A Map is the sequence of its entries in         *)
(* insertion order.                                                        *)
(***************************************************************************)
EXTENDS Integers, Sequences, FiniteSets, TLC

VARIABLES env, pc, res, repos, stats, svg, file, writes, exitCode, errorMessage

vars == <<env, pc, res, repos, stats, svg, file, writes, exitCode, errorMessage>>

----------------------------------------------------------------------------
(* Bounds of the model.                                                    *)

\* longest repository sequence handed to aggregateLanguages on its own
MaxRepos == 7
\* longest JSON list (or string) the remote API answers with in a run of main
MaxFetched == 3
\* most repositories in a sequence handed to the chart functions
MaxTotal == 8

----------------------------------------------------------------------------
(* JavaScript values.                                                      *)

NULL == "<null>"
UNDEFINED == "<undefined>"

\* ToBoolean of a language field: null, undefined and "" are falsy.
Truthy(v) == v \notin {NULL, UNDEFINED, ""}

Repo(language) == [tag |-> "object", language |-> language]
NullElement == [tag |-> "null", language |-> UNDEFINED]
PrimitiveElement == [tag |-> "primitive", language |-> UNDEFINED]

JsList(items) == [kind |-> "list", items |-> items]
JsString(n) == [kind |-> "string", items |-> [i \in 1..n |-> PrimitiveElement]]
JsOther(kind) == [kind |-> kind, items |-> <<>>]

\* for (const x of v): arrays and strings are iterable
Iterable(v) == v.kind \in {"list", "string"}

----------------------------------------------------------------------------
(* Program constants.                                                      *)

THEME ==
    [light |-> [background |-> "#ffffff", textTitle |-> "#2f3640",
                textLegend |-> "#636e72",
                palette |-> <<"#4caf50", "#009688", "#cddc39",
                              "#ff9800", "#795548", "#607d8b">>],
     dark  |-> [background |-> "#0f1914", textTitle |-> "#aaccbb",
                textLegend |-> "#e0e0e0",
                palette |-> <<"#66bb6a", "#26a69a", "#d4e157",
                              "#ffa726", "#8d6e63", "#78909c">>]]

RepeatRepo(language, n) == [i \in 1..n |-> Repo(language)]

MOCK_REPOS ==
    JsList(RepeatRepo("JavaScript", 3) \o RepeatRepo("TypeScript", 2)
           \o RepeatRepo("Python", 2) \o <<Repo("HTML"), Repo("CSS")>>
           \o RepeatRepo("PHP", 2) \o RepeatRepo("Ruby", 4))

\* const THEME_MODE = process.env.THEME_MODE || 'adaptive'
THEME_MODE == IF Truthy(env.THEME_MODE) THEN env.THEME_MODE ELSE "adaptive"

\* sortedLanguages.slice(0, 5)
TopN == 5
\* `var(--color-${i % 6})`
PaletteSize == 6

----------------------------------------------------------------------------
(* aggregateLanguages                                                      *)

\* position of key in the Map, 0 when it has none
MapIndex(counts, key) ==
    IF \E j \in 1..Len(counts) : counts[j].lang = key
    THEN CHOOSE j \in 1..Len(counts) : counts[j].lang = key
    ELSE 0

\* counts.get(key) || 0
MapGetOrZero(counts, key) ==
    IF MapIndex(counts, key) = 0 THEN 0 ELSE counts[MapIndex(counts, key)].count

\* counts.set(key, value): a present key keeps its place, a new one goes last
MapSet(counts, key, value) ==
    IF MapIndex(counts, key) = 0
    THEN Append(counts, [lang |-> key, count |-> value])
    ELSE [counts EXCEPT ![MapIndex(counts, key)].count = value]

\* the key folded to lower case
CountKeyFolded(language) == IF language = "Go" THEN "go" ELSE language

\* the key a language is counted under: the string itself
CountKey(language) == language

\* one turn of the for loop; acc is [counts, totalCount]
CountStep(acc, repo) ==
    IF ~Truthy(repo.language)
    THEN acc
    ELSE [counts |-> MapSet(acc.counts, CountKey(repo.language),
                            MapGetOrZero(acc.counts, CountKey(repo.language)) + 1),
          totalCount |-> acc.totalCount + 1]

RECURSIVE CountLoop(_, _, _)
CountLoop(items, i, acc) ==
    IF i > Len(items) THEN acc
    ELSE CountLoop(items, i + 1, CountStep(acc, items[i]))

\* the comparator (a, b) => b[1] - a[1]
Compare(a, b) == b.count - a.count

\* insert x before the entries of its own count: a sort that is not stable
RECURSIVE InsertSortedTiesReversed(_, _)
InsertSortedTiesReversed(s, x) ==
    IF s = <<>> THEN <<x>>
    ELSE IF x.count < Head(s).count
         THEN <<Head(s)>> \o InsertSortedTiesReversed(Tail(s), x)
         ELSE <<x>> \o s

\* insert x into the sorted sequence s behind every entry it does not precede
RECURSIVE InsertSorted(_, _)
InsertSorted(s, x) ==
    IF s = <<>> THEN <<x>>
    ELSE IF Compare(Head(s), x) <= 0
         THEN <<Head(s)>> \o InsertSorted(Tail(s), x)
         ELSE <<x>> \o s

\* Array.prototype.sort, which is stable: entries the comparator ranks equal
\* keep their order
RECURSIVE StableSortFrom(_, _, _)
StableSortFrom(entries, i, sorted) ==
    IF i > Len(entries) THEN sorted
    ELSE StableSortFrom(entries, i + 1, InsertSorted(sorted, entries[i]))

SortedLanguages(counts) == StableSortFrom(counts, 1, <<>>)

\* a slice one entry too long
SliceOneMore(s, n) == SubSeq(s, 1, IF Len(s) < n + 1 THEN Len(s) ELSE n + 1)

\* .slice(0, 5)
Slice(s, n) == SubSeq(s, 1, IF Len(s) < n THEN Len(s) ELSE n)

RECURSIVE SumCounts(_)
SumCounts(s) == IF s = <<>> THEN 0 ELSE Head(s).count + SumCounts(Tail(s))

\* "Others" pushed without the test
PushOthersAlways(top, totalCount) ==
    Append(top, [lang |-> "Others", count |-> totalCount - SumCounts(top)])

\* if (totalCount > topSum) topLanguages.push({lang: "Others", ...})
PushOthers(top, totalCount) ==
    IF totalCount > SumCounts(top)
    THEN Append(top, [lang |-> "Others", count |-> totalCount - SumCounts(top)])
    ELSE top

\* the first element the loop throws on: a null has no property `language`
Throws(v) == ~Iterable(v) \/ \E i \in 1..Len(v.items) : v.items[i].tag = "null"

aggregateLanguages(v) ==
    LET acc == CountLoop(v.items, 1, [counts |-> <<>>, totalCount |-> 0])
    IN  [counts |-> acc.counts,
         topLanguages |-> PushOthers(Slice(SortedLanguages(acc.counts), TopN),
                                     acc.totalCount),
         totalCount |-> acc.totalCount]

NoStats == [counts |-> <<>>, topLanguages |-> <<>>, totalCount |-> 0]

----------------------------------------------------------------------------
(* JavaScript Numbers: IEEE 754 binary64, round to nearest, ties to even.  *)
(* TLC's integers have 32 bits, so a 53-bit significand is kept as a       *)
(* natural number in limbs: the sequence of its digits in base LimbBase,   *)
(* least significant first, without leading zeros (zero is <<>>).          *)

LimbBits == 15
LimbBase == 2 ^ LimbBits
\* bits of a binary64 significand
Precision == 53

RECURSIVE BNorm(_)
BNorm(a) ==
    IF a = <<>> THEN <<>>
    ELSE IF a[Len(a)] = 0 THEN BNorm(SubSeq(a, 1, Len(a) - 1)) ELSE a

BFromInt(n) == IF n = 0 THEN <<>> ELSE IF n < LimbBase THEN <<n>>
               ELSE <<n % LimbBase, n \div LimbBase>>

\* the value of a number of at most two limbs
BToInt(a) == IF a = <<>> THEN 0 ELSE IF Len(a) = 1 THEN a[1]
             ELSE a[1] + LimbBase * a[2]

LimbOrZero(a) == IF a = <<>> THEN 0 ELSE Head(a)
RestOrEmpty(a) == IF a = <<>> THEN <<>> ELSE Tail(a)

RECURSIVE BAddCarry(_, _, _)
BAddCarry(a, b, c) ==
    IF a = <<>> /\ b = <<>> THEN (IF c = 0 THEN <<>> ELSE <<c>>)
    ELSE LET x == LimbOrZero(a) + LimbOrZero(b) + c
         IN  <<x % LimbBase>> \o BAddCarry(RestOrEmpty(a), RestOrEmpty(b), x \div LimbBase)

BAdd(a, b) == BAddCarry(a, b, 0)

\* a - b for a >= b
RECURSIVE BSubBorrow(_, _, _)
BSubBorrow(a, b, c) ==
    IF a = <<>> THEN <<>>
    ELSE LET x == Head(a) - LimbOrZero(b) - c
         IN  IF x < 0
             THEN <<x + LimbBase>> \o BSubBorrow(Tail(a), RestOrEmpty(b), 1)
             ELSE <<x>> \o BSubBorrow(Tail(a), RestOrEmpty(b), 0)

BSub(a, b) == BNorm(BSubBorrow(a, b, 0))

\* -1, 0, 1 as a < b, a = b, a > b (both without leading zeros)
RECURSIVE BCmp(_, _)
BCmp(a, b) ==
    IF Len(a) # Len(b) THEN (IF Len(a) < Len(b) THEN -1 ELSE 1)
    ELSE IF a = <<>> THEN 0
    ELSE IF a[Len(a)] # b[Len(b)] THEN (IF a[Len(a)] < b[Len(b)] THEN -1 ELSE 1)
    ELSE BCmp(BNorm(SubSeq(a, 1, Len(a) - 1)), BNorm(SubSeq(b, 1, Len(b) - 1)))

\* a * k + c for 0 <= k, c < LimbBase
RECURSIVE BMulSmallCarry(_, _, _)
BMulSmallCarry(a, k, c) ==
    IF a = <<>> THEN (IF c = 0 THEN <<>> ELSE <<c>>)
    ELSE LET x == Head(a) * k + c
         IN  <<x % LimbBase>> \o BMulSmallCarry(Tail(a), k, x \div LimbBase)

BMulSmall(a, k) == BNorm(BMulSmallCarry(a, k, 0))

RECURSIVE BMul(_, _)
BMul(a, b) ==
    IF a = <<>> \/ b = <<>> THEN <<>>
    ELSE BNorm(BAdd(BMulSmall(a, Head(b)), <<0>> \o BMul(a, Tail(b))))

\* [q, r]: a = q * k + r, for 0 < k < LimbBase; the limbs from the top down
RECURSIVE BDivSmallFrom(_, _, _, _)
BDivSmallFrom(a, k, i, acc) ==
    IF i = 0 THEN [q |-> BNorm(acc.q), r |-> acc.r]
    ELSE LET x == acc.r * LimbBase + a[i]
         IN  BDivSmallFrom(a, k, i - 1, [q |-> <<x \div k>> \o acc.q, r |-> x % k])

BDivSmall(a, k) == BDivSmallFrom(a, k, Len(a), [q |-> <<>>, r |-> 0])

\* a * 2^n
BShl(a, n) ==
    IF a = <<>> THEN <<>>
    ELSE [i \in 1..(n \div LimbBits) |-> 0] \o BMulSmall(a, 2 ^ (n % LimbBits))

\* floor(a / 2^n)
BShr(a, n) ==
    IF Len(a) <= n \div LimbBits THEN <<>>
    ELSE BDivSmall(SubSeq(a, n \div LimbBits + 1, Len(a)), 2 ^ (n % LimbBits)).q

RECURSIVE IntBits(_)
IntBits(n) == IF n = 0 THEN 0 ELSE 1 + IntBits(n \div 2)

\* the number of bits of a
BBits(a) == IF a = <<>> THEN 0 ELSE (Len(a) - 1) * LimbBits + IntBits(a[Len(a)])

BOdd(a) == a # <<>> /\ a[1] % 2 = 1

\* An exact dyadic number sign * m * 2^e, m of any length.
Exact(sign, m, e) == [sign |-> IF m = <<>> THEN 1 ELSE sign, m |-> m,
                      e |-> IF m = <<>> THEN 0 ELSE e]

MinInt(x, y) == IF x < y THEN x ELSE y

ExMul(a, b) == Exact(a.sign * b.sign, BMul(a.m, b.m), a.e + b.e)

ExNeg(a) == Exact(-a.sign, a.m, a.e)

ExAdd(a, b) ==
    LET e == IF a.m = <<>> THEN b.e ELSE IF b.m = <<>> THEN a.e ELSE MinInt(a.e, b.e)
        x == BShl(a.m, a.e - e)
        y == BShl(b.m, b.e - e)
    IN  IF a.sign = b.sign THEN Exact(a.sign, BAdd(x, y), e)
        ELSE IF BCmp(x, y) >= 0 THEN Exact(a.sign, BSub(x, y), e)
        ELSE Exact(b.sign, BSub(y, x), e)

ExSub(a, b) == ExAdd(a, ExNeg(b))

ExAbs(a) == Exact(1, a.m, a.e)

\* a > b
ExGt(a, b) == LET d == ExSub(a, b) IN d.m # <<>> /\ d.sign = 1

\* The binary64 nearest to the exact number x, ties to the even significand:
\* a significand of exactly Precision bits (subnormals and overflow are out
\* of the range of the program's values).
RoundToDouble(x) ==
    LET n == BBits(x.m)
        s == n - Precision
        q == BShr(x.m, s)
        rem == BSub(x.m, BShl(q, s))
        c == BCmp(rem, BShl(<<1>>, s - 1))
        up == IF c > 0 \/ (c = 0 /\ BOdd(q)) THEN BAdd(q, <<1>>) ELSE q
    IN  IF n = 0 THEN Exact(1, <<>>, 0)
        ELSE IF s <= 0 THEN Exact(x.sign, BShl(x.m, -s), x.e + s)
        ELSE IF BBits(up) > Precision THEN Exact(x.sign, BShr(up, 1), x.e + s + 1)
        ELSE Exact(x.sign, up, x.e + s)

\* a Number holding the integer n, 0 <= n < LimbBase^2
FromInt(n) == RoundToDouble(Exact(1, BFromInt(n), 0))

FNeg(a) == ExNeg(a)
FAdd(a, b) == RoundToDouble(ExAdd(a, b))
FMul(a, b) == RoundToDouble(ExMul(a, b))
FGt(a, b) == ExGt(a, b)

\* bits FDiv carries below the quotient's last place
GuardBits == 20
\* most significant bits of a divisor FDiv takes: the program divides by
\* totalCount and by 2 only
DivisorBits == 15

\* a / b for a divisor b of at most DivisorBits significant bits: the
\* quotient to GuardBits further places, a last bit set when a remainder is
\* left, rounded once
FDiv(a, b) ==
    LET k == BToInt(BShr(b.m, Precision - DivisorBits))
        d == BDivSmall(BShl(a.m, GuardBits), k)
        m == BAdd(BShl(d.q, 1), IF d.r = 0 THEN <<>> ELSE <<1>>)
    IN  RoundToDouble(Exact(a.sign * b.sign, m,
                            a.e - GuardBits - 1 - (b.e + Precision - DivisorBits)))

\* Math.PI = 0x1.921FB54442D18p+1
PI == Exact(1, <<11544, 10376, 2029, 201>>, -51)

\* Number.prototype.toFixed(1) of x >= 0, as the integer n its digits spell
\* (n / 10 is the decimal printed): n / 10 - x is as close to zero as
\* possible, and of two such n the larger
ToFixed1(x) ==
    LET t == BMulSmall(x.m, 10)
        s == -x.e
        q == BShr(t, s)
        rem == BSub(t, BShl(q, s))
    IN  IF x.e >= 0 THEN BToInt(BShl(t, x.e))
        ELSE IF BCmp(rem, BShl(<<1>>, s - 1)) >= 0 THEN BToInt(q) + 1
        ELSE BToInt(q)

----------------------------------------------------------------------------
(* generateSVG                                                             *)

\* genCSS(theme): the CSS variables, each <<name, value>>
genCSS(theme) ==
    << <<"--bg-color", theme.background>>,
       <<"--text-title", theme.textTitle>>,
       <<"--text-legend", theme.textLegend>> >>
    \o [i \in 1..Len(theme.palette) |->
            <<"--color-" \o ToString(i - 1), theme.palette[i]>>]

\* a `:root { ... }` rule, inside the @media condition `media` ("" for none)
RootRule(media, theme) == [media |-> media, css |-> genCSS(theme)]

PrefersDark == "(prefers-color-scheme: dark)"

\* the adaptive document with the dark block as the default scope
StyleContentDarkDefault(mode) ==
    IF mode = "light" THEN <<RootRule("", THEME.light)>>
    ELSE IF mode = "dark" THEN <<RootRule("", THEME.dark)>>
    ELSE <<RootRule("", THEME.dark), RootRule("(prefers-color-scheme: light)", THEME.light)>>

\* styleContent, as the rules it holds in order
StyleContent(mode) ==
    IF mode = "light" THEN <<RootRule("", THEME.light)>>
    ELSE IF mode = "dark" THEN <<RootRule("", THEME.dark)>>
    ELSE <<RootRule("", THEME.light), RootRule(PrefersDark, THEME.dark)>>

\* a palette index that wraps one entry early
ColorVarWrapsEarly(i) == i % (PaletteSize - 1)

\* `var(--color-${i % 6})` for the 0-based index i, as the palette index
ColorVar(i) == i % PaletteSize

TWO == FromInt(2)

\* let offset = -Math.PI / 2
StartOffset == FDiv(FNeg(PI), TWO)

\* (d.count / totalCount) * Math.PI * 2
Angle(count, totalCount) ==
    FMul(FMul(FDiv(FromInt(count), FromInt(totalCount)), PI), TWO)

\* the flag set from half a turn on
LargeArcFromHalf(angle) == IF FGt(PI, angle) THEN 0 ELSE 1

\* angle > Math.PI ? 1 : 0
LargeArc(angle) == IF FGt(angle, PI) THEN 1 ELSE 0

\* the callback of data.map in generateDonutChart for data[i], i from 1:
\* the angles it computes (p1..p4 are their points on the two circles) and
\* the attributes of the path
Wedge(d, i, totalCount, offset) ==
    [angle |-> Angle(d.count, totalCount),
     largeArc |-> LargeArc(Angle(d.count, totalCount)),
     startAngle |-> offset,
     endAngle |-> FAdd(offset, Angle(d.count, totalCount)),
     fill |-> ColorVar(i - 1)]

RECURSIVE DonutFrom(_, _, _, _)
DonutFrom(data, totalCount, i, offset) ==
    IF i > Len(data) THEN <<>>
    ELSE <<Wedge(data[i], i, totalCount, offset)>>
         \o DonutFrom(data, totalCount, i + 1,
                      FAdd(offset, Angle(data[i].count, totalCount)))

generateDonutChart(data, totalCount) == DonutFrom(data, totalCount, 1, StartOffset)

LegendStartY == 50
LineHeight == 25

\* the percentage cut off after its first decimal
PercentageTruncated(count, totalCount) ==
    LET x == FMul(FDiv(FromInt(count), FromInt(totalCount)), FromInt(100))
    IN  BToInt(BShr(BMulSmall(x.m, 10), -x.e))

\* ((d.count / totalCount) * 100).toFixed(1), in tenths of a percent
Percentage(count, totalCount) ==
    ToFixed1(FMul(FDiv(FromInt(count), FromInt(totalCount)), FromInt(100)))

\* the callback of data.map in generateLegend for data[i], i from 1
LegendRow(d, i, totalCount) ==
    [y |-> LegendStartY + (i - 1) * LineHeight,
     fill |-> ColorVar(i - 1),
     lang |-> d.lang,
     percentage |-> Percentage(d.count, totalCount)]

generateLegend(data, totalCount) ==
    [i \in 1..Len(data) |-> LegendRow(data[i], i, totalCount)]

generateSVG(data, totalCount) ==
    [style |-> StyleContent(THEME_MODE),
     donut |-> generateDonutChart(data, totalCount),
     legend |-> generateLegend(data, totalCount)]

NoSvg == [style |-> <<>>, donut |-> <<>>, legend |-> <<>>]

----------------------------------------------------------------------------
(* getRepositories                                                         *)

\* an answer of the remote API: the fetch rejects, or resolves with a status
\* and a body
Response(status, statusText, body) ==
    [rejected |-> FALSE, status |-> status, statusText |-> statusText, body |-> body]
\* no request was made
NoResponse ==
    [rejected |-> FALSE, status |-> 0, statusText |-> "", body |-> JsOther("none")]
NetworkError ==
    [rejected |-> TRUE, status |-> 0, statusText |-> "", body |-> JsOther("none")]

\* res.ok
Ok(response) == response.status \in 200..299

Threw(message) == [threw |-> TRUE, error |-> message, value |-> JsOther("none")]
Returned(value) == [threw |-> FALSE, error |-> <<>>, value |-> value]

\* whether getRepositories reaches its fetch
Requests == env.MOCK_DATA # "true" /\ Truthy(env.GITHUB_USER)

\* getRepositories without the test of res.ok
getRepositoriesUnchecked(response) ==
    IF env.MOCK_DATA = "true" THEN Returned(MOCK_REPOS)
    ELSE IF ~Truthy(env.GITHUB_USER)
         THEN Threw(<<"GITHUB_USER environment variable is required.">>)
    ELSE IF response.rejected THEN Threw(<<"fetch failed">>)
    ELSE IF response.body.kind = "unparseable" THEN Threw(<<"invalid json">>)
    ELSE IF response.body.kind = "null"
         THEN Threw(<<"Cannot read properties of null (reading 'length')">>)
    ELSE Returned(response.body)

\* a message is the sequence of the parts of its template
getRepositories(response) ==
    IF env.MOCK_DATA = "true" THEN Returned(MOCK_REPOS)
    ELSE IF ~Truthy(env.GITHUB_USER)
         THEN Threw(<<"GITHUB_USER environment variable is required.">>)
    ELSE IF response.rejected THEN Threw(<<"fetch failed">>)
    ELSE IF ~Ok(response)
         THEN Threw(<<"Failed to fetch repos: ", ToString(response.status), " ",
                      response.statusText>>)
    ELSE IF response.body.kind = "unparseable" THEN Threw(<<"invalid json">>)
    ELSE IF response.body.kind = "null"
         THEN Threw(<<"Cannot read properties of null (reading 'length')">>)
    ELSE Returned(response.body)

----------------------------------------------------------------------------
(* The environment of a run of main().                                     *)

Envs ==
    [MOCK_DATA : {UNDEFINED, "true"},
     GITHUB_USER : {UNDEFINED, "octocat"},
     THEME_MODE : {UNDEFINED, "light", "dark", "adaptive", "DARK"}]

\* the elements of a fetched list
Elements ==
    {Repo("Go"), Repo("Rust"), Repo(NULL), Repo(UNDEFINED), Repo(""),
     NullElement, PrimitiveElement}

\* the sequences over S of length at most n
SeqUpTo(S, n) == UNION {[1..k -> S] : k \in 0..n}

Bodies ==
    {JsOther("unparseable"), JsOther("null"), JsOther("object"), JsOther("number")}
    \cup {JsString(n) : n \in 0..MaxFetched}
    \cup {JsList(items) : items \in SeqUpTo(Elements, MaxFetched)}

Responses ==
    {NetworkError, Response(404, "Not Found", JsOther("object")),
     Response(403, "Forbidden", JsOther("object"))}
    \cup {Response(200, "OK", body) : body \in Bodies}

\* the environment of the runs of the functions on their own
DefaultEnv == [MOCK_DATA |-> UNDEFINED, GITHUB_USER |-> "octocat",
               THEME_MODE |-> UNDEFINED]

Running == -1

----------------------------------------------------------------------------
(* main()                                                                  *)

Init ==
    /\ env \in Envs
    /\ pc = "main"
    /\ res = NoResponse
    /\ repos = JsOther("none")
    /\ stats = NoStats
    /\ svg = NoSvg
    /\ file = "untouched"
    /\ writes = 0
    /\ exitCode = Running
    /\ errorMessage = <<>>

\* catch (error) { console.error("Error:", error.message); process.exit(1) }
Catch(message) ==
    /\ errorMessage' = message
    /\ exitCode' = 1
    /\ pc' = "exited"

\* const repos = await getRepositories()
GetRepositories ==
    /\ pc = "main"
    /\ \E response \in Responses :
          LET r == getRepositories(response)
          IN  /\ res' = IF Requests THEN response ELSE NoResponse
              /\ IF r.threw
                 THEN Catch(r.error) /\ UNCHANGED repos
                 ELSE /\ repos' = r.value
                      /\ pc' = "fetched"
                      /\ UNCHANGED <<exitCode, errorMessage>>
    /\ UNCHANGED <<env, stats, svg, file, writes>>

\* const stats = aggregateLanguages(repos)
Aggregate ==
    /\ pc = "fetched"
    /\ IF Throws(repos)
       THEN Catch(<<"TypeError">>) /\ UNCHANGED stats
       ELSE /\ stats' = aggregateLanguages(repos)
            /\ pc' = "aggregated"
            /\ UNCHANGED <<exitCode, errorMessage>>
    /\ UNCHANGED <<env, res, repos, svg, file, writes>>

\* the run without a language ended as a failure
NoLanguagesFails ==
    /\ pc = "aggregated"
    /\ stats.totalCount = 0
    /\ Catch(<<"No languages found.">>)
    /\ UNCHANGED <<env, res, repos, stats, svg, file, writes>>

\* if (stats.totalCount === 0) { console.log("No languages found."); return }
NoLanguages ==
    /\ pc = "aggregated"
    /\ stats.totalCount = 0
    /\ pc' = "exited"
    /\ exitCode' = 0
    /\ UNCHANGED <<env, res, repos, stats, svg, file, writes, errorMessage>>

\* const svgWrapper = generateSVG(stats.topLanguages, stats.totalCount)
Render ==
    /\ pc = "aggregated"
    /\ stats.totalCount # 0
    /\ svg' = generateSVG(stats.topLanguages, stats.totalCount)
    /\ pc' = "rendered"
    /\ UNCHANGED <<env, res, repos, stats, file, writes, exitCode, errorMessage>>

\* fs.writeFileSync("stats.svg", svgWrapper): it returns with the file
\* written, or throws with the file untouched or truncated
WriteFile ==
    /\ pc = "rendered"
    /\ \/ /\ file' = "written"
          /\ writes' = writes + 1
          /\ pc' = "exited"
          /\ exitCode' = 0
          /\ UNCHANGED errorMessage
       \/ /\ file' \in {"untouched", "truncated"}
          /\ Catch(<<"write failed">>)
          /\ UNCHANGED writes
    /\ UNCHANGED <<env, res, repos, stats, svg>>

Next == GetRepositories \/ Aggregate \/ NoLanguages \/ Render \/ WriteFile

Spec == Init /\ [][Next]_vars

----------------------------------------------------------------------------
(* aggregateLanguages on its own: the fixture, and every sequence of at    *)
(* most MaxRepos repository records in which the names of LanguageNames    *)
(* make their first appearance in that order (the function reads a name    *)
(* only to compare it with another) and in which "Others", the name of the *)
(* synthetic entry, may be the language of a repository too.               *)

LanguageNames == <<"Go", "go", "Rust", "C", "PHP", "Awk", "Lua">>

LanguagesIn(items) ==
    {items[i].language : i \in {j \in 1..Len(items) : Truthy(items[j].language)}}

\* the languages the next record may have: one seen before, the first name
\* of LanguageNames not seen yet, "Others"
NextLanguages(items) ==
    LET unseen == {i \in 1..Len(LanguageNames) : LanguageNames[i] \notin LanguagesIn(items)}
    IN  LanguagesIn(items) \cup {"Others"}
        \cup {LanguageNames[i] : i \in {j \in unseen : \A k \in unseen : j <= k}}

AggInit ==
    /\ env = DefaultEnv
    /\ pc = "fetched"
    /\ res = NoResponse
    /\ repos \in {JsList(<<>>), MOCK_REPOS}
    /\ stats = NoStats
    /\ svg = NoSvg
    /\ file = "untouched"
    /\ writes = 0
    /\ exitCode = Running
    /\ errorMessage = <<>>

\* the sequence handed to aggregateLanguages is one record longer
AnotherRepository ==
    /\ pc = "fetched"
    /\ Len(repos.items) < MaxRepos
    /\ \E language \in {NULL, UNDEFINED, ""} \cup NextLanguages(repos.items) :
          repos' = JsList(Append(repos.items, Repo(language)))
    /\ UNCHANGED <<env, pc, res, stats, svg, file, writes, exitCode, errorMessage>>

AggNext == AnotherRepository \/ Aggregate

AggSpec == AggInit /\ [][AggNext]_vars

----------------------------------------------------------------------------
(* generateSVG on the result of aggregateLanguages: every distribution of  *)
(* at most MaxTotal repositories over the names of LanguageNames, and the  *)
(* fixture.                                                                *)

\* the sequences of at most `parts` counts, each at least 1, of sum at most total
RECURSIVE CountVectors(_, _)
CountVectors(total, parts) ==
    IF parts = 0 THEN {<<>>}
    ELSE {<<>>} \cup UNION {{<<c>> \o v : v \in CountVectors(total - c, parts - 1)} :
                            c \in 1..total}

\* v[1] records of the first name, then v[2] of the second, ...
RECURSIVE Blocks(_, _)
Blocks(v, i) ==
    IF i > Len(v) THEN <<>>
    ELSE RepeatRepo(LanguageNames[i], v[i]) \o Blocks(v, i + 1)

ChartInputs ==
    {MOCK_REPOS}
    \cup {JsList(Blocks(v, 1)) : v \in CountVectors(MaxTotal, Len(LanguageNames))}

ChartInit ==
    /\ env = DefaultEnv
    /\ pc = "fetched"
    /\ res = NoResponse
    /\ repos \in ChartInputs
    /\ stats = NoStats
    /\ svg = NoSvg
    /\ file = "untouched"
    /\ writes = 0
    /\ exitCode = Running
    /\ errorMessage = <<>>

ChartNext == Aggregate \/ Render

ChartSpec == ChartInit /\ [][ChartNext]_vars

----------------------------------------------------------------------------
(* What the properties are stated with.                                    *)

\* aggregateLanguages has returned
Aggregated == pc \in {"aggregated", "rendered"} \/ (pc = "exited" /\ ~Throws(repos)
                                                    /\ repos.kind # "none")

\* generateSVG has returned
Rendered == svg # NoSvg

\* the number of records whose language is the string l
RecordsWith(items, l) == Cardinality({i \in 1..Len(items) : items[i].language = l})

\* what a record without a language has in its language field
NoLanguage == {NULL, UNDEFINED, ""}

\* the number of records with a non-empty language
RecordsWithLanguage(items) ==
    Cardinality({i \in 1..Len(items) : items[i].language \notin NoLanguage})

\* the non-empty languages of the records
LanguagesOf(items) == {items[i].language : i \in 1..Len(items)} \ NoLanguage

\* the place of the first record whose language is l
FirstSeen(items, l) ==
    CHOOSE i \in 1..Len(items) :
        /\ items[i].language = l
        /\ \A j \in 1..(i - 1) : items[j].language # l

RECURSIVE CountsUpTo(_, _)
CountsUpTo(entries, n) ==
    IF n = 0 THEN 0 ELSE entries[n].count + CountsUpTo(entries, n - 1)

\* the sum of the counts of all entries
CountsOf(entries) == CountsUpTo(entries, Len(entries))

\* the number of distinct languages with a non-zero count
DistinctLanguages == Cardinality(LanguagesOf(repos.items))

\* the number of languages kept: 5, or all when there are fewer
Kept == IF DistinctLanguages < TopN THEN DistinctLanguages ELSE TopN

HasEntryNamed(entries, name) == \E i \in 1..Len(entries) : entries[i].lang = name

----------------------------------------------------------------------------
(* aggregateLanguages: claims C1 to C4, under AggSpec.                     *)

\* C1: whatever the repository sequence, the counts of the entries of
\* topLanguages, "Others" included, add up to totalCount, and every entry
\* has a count of at least 1.
C1_CountsSumToTotal ==
    Aggregated =>
        /\ CountsOf(stats.topLanguages) = stats.totalCount
        /\ \A i \in 1..Len(stats.topLanguages) : stats.topLanguages[i].count >= 1

\* a result with the "Others" entry, of a sequence that has records without
\* a language
C1_Witness ==
    /\ Aggregated
    /\ Len(stats.topLanguages) = TopN + 1
    /\ \E i \in 1..Len(repos.items) : repos.items[i].language \in NoLanguage

\* C2: an entry named "Others" is appended if and only if more than 5
\* distinct languages have a non-zero count; it is then the last entry and
\* counts totalCount minus the 5 kept.  With 5 or fewer languages
\* topLanguages holds exactly those languages, one entry each, and no
\* appended entry: an entry named "Others" is then there only as the entry
\* of a language of that name in the input.
C2_OthersAppendedIffMoreThanFive ==
    Aggregated =>
        /\ Len(stats.topLanguages) = Kept + (IF DistinctLanguages > TopN THEN 1 ELSE 0)
        /\ DistinctLanguages > TopN =>
              /\ stats.topLanguages[TopN + 1].lang = "Others"
              /\ stats.topLanguages[TopN + 1].count
                   = stats.totalCount - CountsUpTo(stats.topLanguages, TopN)
        /\ DistinctLanguages <= TopN =>
              /\ {stats.topLanguages[i].lang : i \in 1..Len(stats.topLanguages)}
                   = LanguagesOf(repos.items)
              /\ HasEntryNamed(stats.topLanguages, "Others")
                   <=> "Others" \in LanguagesOf(repos.items)

\* more than 5 languages, "Others" appended with what two languages count
C2_Witness ==
    /\ Aggregated
    /\ DistinctLanguages = TopN + 2
    /\ stats.topLanguages[TopN + 1] = [lang |-> "Others", count |-> 2]

\* C3: records whose language is null, absent or empty count for no language
\* and not for totalCount: totalCount is the number of records with a
\* non-empty language, and the count kept for a language is the number of
\* records with exactly that string.
C3_CountsExactStrings ==
    Aggregated =>
        /\ stats.totalCount = RecordsWithLanguage(repos.items)
        /\ {stats.counts[i].lang : i \in 1..Len(stats.counts)} = LanguagesOf(repos.items)
        /\ \A i \in 1..Len(stats.counts) :
              stats.counts[i].count = RecordsWith(repos.items, stats.counts[i].lang)
        /\ \A i \in 1..Kept :
              stats.topLanguages[i].count
                  = RecordsWith(repos.items, stats.topLanguages[i].lang)

\* a sequence with "Go" and "go", and a null, an absent and an empty language
C3_Witness ==
    /\ Aggregated
    /\ {"Go", "go"} \subseteq LanguagesOf(repos.items)
    /\ \A v \in {NULL, UNDEFINED, ""} :
           \E i \in 1..Len(repos.items) : repos.items[i].language = v

\* language a comes before language b: a greater count, or the same count
\* and an earlier first appearance
Before(a, b) ==
    \/ RecordsWith(repos.items, a) > RecordsWith(repos.items, b)
    \/ /\ RecordsWith(repos.items, a) = RecordsWith(repos.items, b)
       /\ FirstSeen(repos.items, a) < FirstSeen(repos.items, b)

\* C4: the entries of topLanguages but "Others" are the first 5 (or all) of
\* the distinct languages in descending order of count, languages of equal
\* count in the order of their first appearance; no language left out has a
\* greater count than a kept one; the fixture gives Ruby 4, JavaScript 3,
\* TypeScript 2, Python 2, PHP 2, Others 2 and totalCount 15.
C4_TopFiveByCountThenFirstSeen ==
    Aggregated =>
        /\ \A i \in 1..Kept :
              /\ stats.topLanguages[i].lang \in LanguagesOf(repos.items)
              /\ stats.topLanguages[i].count
                    = RecordsWith(repos.items, stats.topLanguages[i].lang)
        /\ \A i, j \in 1..Kept :
              i < j => Before(stats.topLanguages[i].lang, stats.topLanguages[j].lang)
        /\ \A l \in LanguagesOf(repos.items) :
              \/ \E i \in 1..Kept : stats.topLanguages[i].lang = l
              \/ \A i \in 1..Kept :
                    /\ Before(stats.topLanguages[i].lang, l)
                    /\ RecordsWith(repos.items, l) <= stats.topLanguages[i].count
        /\ repos = MOCK_REPOS =>
              /\ stats.topLanguages
                   = << [lang |-> "Ruby", count |-> 4], [lang |-> "JavaScript", count |-> 3],
                        [lang |-> "TypeScript", count |-> 2], [lang |-> "Python", count |-> 2],
                        [lang |-> "PHP", count |-> 2], [lang |-> "Others", count |-> 2] >>
              /\ stats.totalCount = 15

\* the fixture aggregated
C4_Witness == Aggregated /\ repos = MOCK_REPOS /\ Len(stats.topLanguages) = TopN + 1

----------------------------------------------------------------------------
(* main(): claims C5 to C7, under Spec.                                    *)

Exited == pc = "exited"

\* C5 as stated: a run that obtains the repositories and finds totalCount 0
\* skips rendering, never writes stats.svg and ends with exit code 0; a run
\* that finds totalCount > 0 writes the file exactly once, after rendering,
\* and ends with exit code 0.
C5_WrittenOnceAndExitZero ==
    /\ writes > 0 => Rendered
    /\ (Exited /\ Aggregated) =>
          /\ stats.totalCount = 0 =>
                ~Rendered /\ writes = 0 /\ file = "untouched" /\ exitCode = 0
          /\ stats.totalCount > 0 =>
                Rendered /\ writes = 1 /\ file = "written" /\ exitCode = 0

\* C5, amended: a run that finds totalCount 0 skips rendering, never writes
\* the file and ends with exit code 0; a run that finds totalCount > 0
\* renders and then calls the write once: when the write returns, the file
\* has been written exactly once and the run ends with exit code 0; when the
\* write throws, the file is not written and the run ends with exit code 1.
C5_WrittenOnceUnlessWriteThrows ==
    /\ writes > 0 => Rendered
    /\ (Exited /\ Aggregated) =>
          /\ stats.totalCount = 0 =>
                ~Rendered /\ writes = 0 /\ file = "untouched" /\ exitCode = 0
          /\ stats.totalCount > 0 =>
                /\ Rendered
                /\ \/ writes = 1 /\ file = "written" /\ exitCode = 0
                   \/ /\ writes = 0 /\ file # "written" /\ exitCode = 1
                      /\ errorMessage = <<"write failed">>

\* a run over records none of which carries a language has ended
C5_Witness ==
    /\ Exited /\ Aggregated
    /\ Len(repos.items) > 0
    /\ stats.totalCount = 0
    /\ exitCode = 0

\* the identity is missing in non-mock mode
IdentityMissing == env.MOCK_DATA # "true" /\ env.GITHUB_USER \in {UNDEFINED, ""}

\* the remote API answered with a status that is not a success
NonSuccess == res # NoResponse /\ ~res.rejected /\ ~Ok(res)

\* the body of a successful answer cannot be parsed or is not a list of records
NotAListOfRecords ==
    /\ Ok(res)
    /\ \/ res.body.kind # "list"
       \/ \E i \in 1..Len(res.body.items) : res.body.items[i].tag # "object"

\* the error message carries the status code and the status text
MessageCarriesStatus ==
    /\ \E i \in 1..Len(errorMessage) : errorMessage[i] = ToString(res.status)
    /\ \E i \in 1..Len(errorMessage) : errorMessage[i] = res.statusText

FailedWithoutWriting == exitCode = 1 /\ writes = 0 /\ file = "untouched"

\* the write is reached only after fetch, aggregation and rendering succeeded
WriteOnlyAfterRendering ==
    (writes > 0 \/ file # "untouched") =>
        repos.kind # "none" /\ Aggregated /\ Rendered

\* C6 as stated: a run in which the identity is missing in non-mock mode, the
\* response is not a success (the message carrying status code and text), or
\* the body cannot be parsed or is not a list of records, ends with exit code
\* 1 and never writes the file; the write is reached only after fetch,
\* aggregation and rendering have succeeded.
C6_EveryFailureExitsOne ==
    /\ WriteOnlyAfterRendering
    /\ Exited =>
          /\ IdentityMissing => FailedWithoutWriting
          /\ NonSuccess => FailedWithoutWriting /\ MessageCarriesStatus
          /\ NotAListOfRecords => FailedWithoutWriting

\* the body makes res.json(), getRepositories or aggregateLanguages throw
BodyThrows ==
    /\ Ok(res)
    /\ \/ res.body.kind \in {"unparseable", "null", "object", "number"}
       \/ \E i \in 1..Len(res.body.items) : res.body.items[i].tag = "null"

\* C6, amended: a run in which the identity is missing in non-mock mode, the
\* request fails, the response is not a success (the message carrying status
\* code and text), or the body cannot be parsed, is null, is not iterable or
\* is a list with a null element, ends with exit code 1 and never writes the
\* file.  A body that is a string, or a list whose elements are not all
\* records but none of them null, is not taken as a failure: what is not a
\* record counts as a record without a language, and a run that finds no
\* language this way ends with exit code 0 and does not write.  The write is
\* reached only after fetch, aggregation and rendering have succeeded.
C6_ThrowingFailuresExitOne ==
    /\ WriteOnlyAfterRendering
    /\ Exited =>
          /\ IdentityMissing =>
                /\ FailedWithoutWriting
                /\ errorMessage = <<"GITHUB_USER environment variable is required.">>
          /\ res.rejected => FailedWithoutWriting
          /\ NonSuccess => FailedWithoutWriting /\ MessageCarriesStatus
          /\ BodyThrows => FailedWithoutWriting
          /\ (NotAListOfRecords /\ ~BodyThrows) =>
                /\ stats.totalCount = RecordsWithLanguage(res.body.items)
                /\ stats.totalCount = 0 => exitCode = 0 /\ writes = 0 /\ file = "untouched"

\* a run that got a 404 has ended
C6_Witness ==
    /\ Exited
    /\ res.status = 404
    /\ exitCode = 1
    /\ errorMessage = <<"Failed to fetch repos: ", "404", " ", "Not Found">>

\* the values a rule gives its variables
Emitted(rule) == {rule.css[i][2] : i \in 1..Len(rule.css)}

\* the colour values of a theme
ThemeValues(theme) ==
    {theme.background, theme.textTitle, theme.textLegend}
    \cup {theme.palette[i] : i \in 1..Len(theme.palette)}

\* the rule is not inside a condition
Unconditional(rule) == rule.media = ""

\* C7: mode "light" emits only the light theme's values and none of the
\* dark theme's; "dark" only the dark theme's and none of the light one's;
\* "adaptive", also when the setting is unset, emits the light block as the
\* default scope and the dark block only inside prefers-color-scheme: dark.
\* No mode emits a dark block as the unconditional default with a light one.
C7_ThemeBlocks ==
    Rendered =>
        /\ env.THEME_MODE = "light" =>
              /\ Len(svg.style) = 1
              /\ Unconditional(svg.style[1])
              /\ Emitted(svg.style[1]) = ThemeValues(THEME.light)
        /\ env.THEME_MODE = "dark" =>
              /\ Len(svg.style) = 1
              /\ Unconditional(svg.style[1])
              /\ Emitted(svg.style[1]) = ThemeValues(THEME.dark)
        /\ env.THEME_MODE \in {"adaptive", UNDEFINED} =>
              /\ Len(svg.style) = 2
              /\ Unconditional(svg.style[1])
              /\ Emitted(svg.style[1]) = ThemeValues(THEME.light)
              /\ svg.style[2].media = PrefersDark
              /\ Emitted(svg.style[2]) = ThemeValues(THEME.dark)
        /\ ~ \E i, j \in 1..Len(svg.style) :
                /\ Unconditional(svg.style[i])
                /\ Emitted(svg.style[i]) \cap ThemeValues(THEME.dark) # {}
                /\ Emitted(svg.style[j]) \cap ThemeValues(THEME.light) # {}

\* a document rendered with the setting unset
C7_Witness == Rendered /\ env.THEME_MODE = UNDEFINED /\ Len(svg.style) = 2

----------------------------------------------------------------------------
(* generateDonutChart and generateLegend: claims C8 to C10, under          *)
(* ChartSpec.                                                              *)

Abs(x) == IF x < 0 THEN -x ELSE x

RECURSIVE PercentagesUpTo(_, _)
PercentagesUpTo(legend, n) ==
    IF n = 0 THEN 0 ELSE legend[n].percentage + PercentagesUpTo(legend, n - 1)

\* the sum of the percentages of the legend, in tenths of a percent
PercentageSum == PercentagesUpTo(svg.legend, Len(svg.legend))

\* C8 as stated: the percentages of the legend add up to between 99.9 and
\* 100.1.
C8_PercentagesWithinOneTenth ==
    Rendered => PercentageSum \in 999..1001

\* C8, amended: each percentage is count / totalCount * 100 rounded to one
\* decimal place, so within 0.05 of the share; the sum over the n rendered
\* entries (n at most 6) is within n * 0.05 of 100.0, that is between 99.7
\* and 100.3.
C8_PercentagesWithinHalfTenthEach ==
    Rendered =>
        /\ Len(svg.legend) = Len(stats.topLanguages)
        /\ \A i \in 1..Len(svg.legend) :
              /\ svg.legend[i].lang = stats.topLanguages[i].lang
              /\ 2 * Abs(svg.legend[i].percentage * stats.totalCount
                         - 1000 * stats.topLanguages[i].count) <= stats.totalCount
        /\ 2 * Abs(PercentageSum - 1000) <= Len(svg.legend)
        /\ PercentageSum \in 997..1003

\* six entries of 16.7 % each
C8_Witness ==
    /\ Rendered
    /\ Len(svg.legend) = TopN + 1
    /\ PercentageSum = 1002

\* 2 * Math.PI
TwoPi == FMul(PI, TWO)

\* what a sum of angles may differ by from the angle it stands for: 2^-40
Tolerance == Exact(1, <<1>>, -40)

\* |a - b| <= eps
Near(a, b, eps) == ~ExGt(ExAbs(ExSub(a, b)), eps)

RECURSIVE SweepsUpTo(_, _)
SweepsUpTo(donut, n) ==
    IF n = 0 THEN FromInt(0) ELSE FAdd(SweepsUpTo(donut, n - 1), donut[n].angle)

\* the sum of the sweeps of all wedges, added up from 0 in their order
SweepSum == SweepsUpTo(svg.donut, Len(svg.donut))

\* the wedges are drawn in the order of topLanguages from 12 o'clock, each
\* starting where the one before ended and ending further on; the large-arc
\* flag is 1 exactly when 2 * count > totalCount, on one wedge at most
WedgesInOrder ==
    /\ Len(svg.donut) = Len(stats.topLanguages)
    /\ svg.donut[1].startAngle = FDiv(FNeg(PI), TWO)
    /\ \A i \in 1..Len(svg.donut) :
          /\ svg.donut[i].endAngle = FAdd(svg.donut[i].startAngle, svg.donut[i].angle)
          /\ ExGt(svg.donut[i].endAngle, svg.donut[i].startAngle)
          /\ i > 1 => svg.donut[i].startAngle = svg.donut[i - 1].endAngle
          /\ svg.donut[i].largeArc
               = (IF 2 * stats.topLanguages[i].count > stats.totalCount THEN 1 ELSE 0)
    /\ Cardinality({i \in 1..Len(svg.donut) : svg.donut[i].largeArc = 1}) <= 1

\* C9 as stated: the wedges are in order, and each sweep is the fraction
\* count / totalCount of a full turn, so that the sweeps add up to exactly
\* 2 pi and the last wedge ends at the starting angle plus a full turn.
C9_SweepsSumToExactlyTwoPi ==
    Rendered =>
        /\ WedgesInOrder
        /\ SweepSum = TwoPi
        /\ svg.donut[Len(svg.donut)].endAngle = FAdd(svg.donut[1].startAngle, TwoPi)

\* C9, amended: the wedges are in order, and each sweep is the fraction
\* count / totalCount of a full turn as the floating-point operations round
\* it, so that the sweeps add up to 2 pi, and the last wedge ends at the
\* starting angle plus a full turn, within floating-point tolerance.
C9_SweepsSumToTwoPiWithinTolerance ==
    Rendered =>
        /\ WedgesInOrder
        /\ \A i \in 1..Len(svg.donut) :
              Near(ExMul(svg.donut[i].angle, FromInt(stats.totalCount)),
                   ExMul(TwoPi, FromInt(stats.topLanguages[i].count)),
                   ExMul(Tolerance, FromInt(stats.totalCount)))
        /\ Near(SweepSum, TwoPi, Tolerance)
        /\ Near(svg.donut[Len(svg.donut)].endAngle,
                ExAdd(svg.donut[1].startAngle, TwoPi), Tolerance)

\* three wedges or more, one of them over half a turn, whose last one ends
\* off the starting angle plus a full turn
C9_Witness ==
    /\ Rendered
    /\ Len(svg.donut) >= 3
    /\ \E i \in 1..Len(svg.donut) : svg.donut[i].largeArc = 1
    /\ svg.donut[Len(svg.donut)].endAngle # FAdd(svg.donut[1].startAngle, TwoPi)

\* an entry shares its palette index with an earlier one
SharesColour(i) == \E j \in 1..(i - 1) : svg.donut[j].fill = svg.donut[i].fill

\* C10 as stated: the entry at position i has palette index i mod 6 in the
\* donut and in the legend, and colours repeat: the 6th entry, "Others",
\* shares its palette index with an earlier entry.
C10_SixthEntrySharesColour ==
    Rendered =>
        /\ \A i \in 1..Len(svg.donut) :
              svg.donut[i].fill = (i - 1) % 6 /\ svg.legend[i].fill = (i - 1) % 6
        /\ Len(svg.donut) = TopN + 1 => SharesColour(TopN + 1)

\* C10, amended: the entry at position i has palette index i mod 6 in the
\* donut and in the legend; topLanguages has 6 entries at most, so the
\* indexes never wrap and no rendered entry shares its palette index with
\* an earlier one of the same chart.
C10_ColoursNeverRepeat ==
    Rendered =>
        /\ Len(svg.donut) <= TopN + 1
        /\ Len(svg.legend) = Len(svg.donut)
        /\ \A i \in 1..Len(svg.donut) :
              /\ svg.donut[i].fill = (i - 1) % 6
              /\ svg.legend[i].fill = (i - 1) % 6
              /\ ~SharesColour(i)

\* a chart of 5 languages and "Others"
C10_Witness ==
    /\ Rendered
    /\ Len(svg.donut) = TopN + 1
    /\ svg.legend[TopN + 1].lang = "Others"

====
